---------------------------- MODULE Spec2Model ----------------------------
(***************************************************************************)
(* A model of the security-rule-converter repository:                      *)
(*   asr_challenge/main.py            ASRGenerator (the orchestrator)      *)
(*   asr_challenge/file_processor.py  FileProcessor (the inspector)        *)
(*   asr_challenge/rule_generator.py  RuleGenerator (hash, indicators,     *)
(*                                    the three pattern-rule templates)    *)
(*   security-rule-converter/converter/main.py  the alternate converter    *)
(*                                                                         *)
(* Text is a sequence of tokens.  Every character that comes from data (a  *)
(* filename, file content, a hash, an indicator) is a token of its own, a  *)
(* string of length one; so is every double quote, single quote, brace     *)
(* and line break of a template.  A run of other template characters is    *)
(* one token ("    meta:").  Two tokens stand for a single character that  *)
(* has no ASCII spelling: "0xFF" is a byte above 127 that is not valid     *)
(* UTF-8, "U+00E9" is the letter e-acute.  Filenames are Python str values *)
(* that encode to UTF-8.                                                   *)
(***************************************************************************)
EXTENDS Integers, Sequences, FiniteSets, TLC

Q == "\""
BS == "\\"
NL == "\n"
SQ == "'"
BadByte == "0xFF"
EAcute == "U+00E9"

UpperCase == << "A","B","C","D","E","F","G","H","I","J","K","L","M",
                "N","O","P","Q","R","S","T","U","V","W","X","Y","Z" >>
LowerCase == << "a","b","c","d","e","f","g","h","i","j","k","l","m",
                "n","o","p","q","r","s","t","u","v","w","x","y","z" >>
Digits == << "0","1","2","3","4","5","6","7","8","9" >>
HexDigits == << "0","1","2","3","4","5","6","7","8","9","a","b","c","d","e","f" >>
Punct == << "_", ".", " ", "-", Q, BS, ":", "/", ",", NL, SQ, "{", "}", "$", "=", BadByte, EAcute >>

CharTable == UpperCase \o LowerCase \o Digits \o Punct

Range(s) == { s[i] : i \in DOMAIN s }

\* The characters of the class [A-Za-z0-9_].
AsciiWord == Range(UpperCase) \cup Range(LowerCase) \cup Range(Digits) \cup {"_"}

\* Python's \w on str is Unicode-aware: a letter such as e-acute is a word character.
PyWord == AsciiWord \cup {EAcute}

Whitespace == {" ", NL, "\t"}

Ord(c) == CHOOSE i \in DOMAIN CharTable : CharTable[i] = c

\* str.lower(), character by character.
LowerChar(c) == IF \E i \in DOMAIN UpperCase : UpperCase[i] = c
                THEN LowerCase[CHOOSE i \in DOMAIN UpperCase : UpperCase[i] = c]
                ELSE c

Lower(s) == [i \in DOMAIN s |-> LowerChar(s[i])]

\* s[:n]
Take(s, n) == SubSeq(s, 1, IF Len(s) < n THEN Len(s) ELSE n)

\* pat in s
Contains(pat, s) == \E i \in 0..(Len(s) - Len(pat)) : SubSeq(s, i + 1, i + Len(pat)) = pat

EndsWith(s, suf) == Len(s) >= Len(suf) /\ SubSeq(s, Len(s) - Len(suf) + 1, Len(s)) = suf

RECURSIVE Flatten(_)
Flatten(ss) == IF ss = << >> THEN << >> ELSE Head(ss) \o Flatten(Tail(ss))

\* '\n'.join(lines)
RECURSIVE JoinLines(_)
JoinLines(ls) == IF ls = << >> THEN << >>
                 ELSE IF Len(ls) = 1 THEN ls[1]
                 ELSE ls[1] \o << NL >> \o JoinLines(Tail(ls))

\* str.replace(old, new) for a one-character old: every occurrence.
ReplaceChar(s, old, new) == Flatten([i \in DOMAIN s |-> IF s[i] = old THEN new ELSE << s[i] >>])

\* str.strip()
RECURSIVE LStrip(_)
LStrip(s) == IF s # << >> /\ Head(s) \in Whitespace THEN LStrip(Tail(s)) ELSE s

RECURSIVE RStrip(_)
RStrip(s) == IF s # << >> /\ s[Len(s)] \in Whitespace THEN RStrip(SubSeq(s, 1, Len(s) - 1)) ELSE s

Strip(s) == LStrip(RStrip(s))

\* s.split(':')[-1]: the text after the last colon (all of s when it has none).
SplitLast(s) == LET cols == { i \in DOMAIN s : s[i] = ":" }
                    last == IF cols = {} THEN 0 ELSE CHOOSE i \in cols : \A j \in cols : j <= i
                IN  SubSeq(s, last + 1, Len(s))

\* bytes.decode('utf-8', errors='ignore'): the invalid bytes are dropped.
DecodeIgnore(bytes) == SelectSeq(bytes, LAMBDA b : b # BadByte)

\* A strict UTF-8 decode raises UnicodeDecodeError on an invalid byte.
DecodesStrict(bytes) == \A i \in DOMAIN bytes : bytes[i] # BadByte

\* pathlib: PurePath.suffix and PurePath.stem (the last dot, unless it is the
\* first or the last character of the name).
LastDot(name) == LET dots == { i \in DOMAIN name : name[i] = "." }
                 IN  IF dots = {} THEN 0 ELSE CHOOSE i \in dots : \A j \in dots : j <= i

HasSuffix(name) == LastDot(name) > 1 /\ LastDot(name) < Len(name)

PathStem(name) == IF HasSuffix(name) THEN SubSeq(name, 1, LastDot(name) - 1) ELSE name

PathSuffix(name) == IF HasSuffix(name) THEN SubSeq(name, LastDot(name), Len(name)) ELSE << >>


\* ---------------------------------------------------------------- FileProcessor

PrefixLen == 4096
ScanLen == 100

InspectorPatterns ==
    << [pattern |-> << "h","t","t","p",":","/","/" >>,     type |-> "URL"],
       [pattern |-> << "h","t","t","p","s",":","/","/" >>, type |-> "URL"],
       [pattern |-> << ".","e","x","e" >>,                 type |-> "Executable"],
       [pattern |-> << ".","d","l","l" >>,                 type |-> "Library"],
       [pattern |-> << "m","a","l","w","a","r","e" >>,     type |-> "Malware reference"],
       [pattern |-> << "v","i","r","u","s" >>,             type |-> "Virus reference"] >>

\* f"{indicator_type}: {pattern}"
IndicatorString(p) == << p.type, ":", " " >> \o p.pattern

\* for pattern, indicator_type in patterns: if pattern in text.lower(): append
ScanPatterns(patterns, text) ==
    LET hits == SelectSeq(patterns, LAMBDA p : Contains(p.pattern, Lower(text)))
    IN  [i \in DOMAIN hits |-> IndicatorString(hits[i])]

find_potential_indicators(content) == ScanPatterns(InspectorPatterns, DecodeIgnore(content))

Printable(c) == c \notin {NL, "\t"}

has_text_patterns(content) ==
    LET text == Take(DecodeIgnore(content), ScanLen)
    IN  \E i \in DOMAIN text : Printable(text[i])

has_binary_patterns(content) ==
    LET head == Take(content, ScanLen)
    IN  \E i \in DOMAIN head : head[i] = BadByte

get_file_info(file) ==
    [file_size      |-> Len(file.content),
     modified_time  |-> "mtime",
     file_name      |-> file.name,
     file_extension |-> Lower(PathSuffix(file.name))]

\* python-magic on the file: raises on a file it cannot open, which the
\* method turns into "unknown".
detect_file_type(file) ==
    IF ~file.readable THEN "unknown"
    ELSE IF file.content = << >> THEN "inode/x-empty"
    ELSE IF \E i \in DOMAIN file.content : file.content[i] = BadByte
         THEN "application/octet-stream"
    ELSE "text/plain"

EmptyRecord == [k \in {} |-> 0]

\* open(file_path, 'rb') raises on an unreadable file; the method returns {}.
analyze_content(file) ==
    IF ~file.readable THEN EmptyRecord
    ELSE LET content == Take(file.content, PrefixLen)
         IN  [has_text_patterns    |-> has_text_patterns(content),
              has_binary_patterns  |-> has_binary_patterns(content),
              potential_indicators |-> find_potential_indicators(content)]

\* analyze_file that gives up the whole record when any step of it fails.
analyze_file_all_or_nothing(file) ==
    IF ~file.stat_ok \/ ~file.readable THEN EmptyRecord
    ELSE get_file_info(file) @@ analyze_content(file) @@ [file_type |-> detect_file_type(file)]

\* file_path.stat() raises in _get_file_info, which has no handler of its own:
\* the except of analyze_file returns {}. _analyze_content and
\* _detect_file_type catch their own exceptions, so the merge goes on.
analyze_file(file) ==
    IF ~file.stat_ok THEN EmptyRecord
    ELSE get_file_info(file) @@ analyze_content(file) @@ [file_type |-> detect_file_type(file)]

\* analysis.get(key, default)
Get(analysis, key, default) == IF key \in DOMAIN analysis THEN analysis[key] ELSE default

\* ---------------------------------------------------------------- RuleGenerator

Author == << "Fariba Mohammaditabar" >>
Created == << "created-isoformat" >>
Version == << "1", ".", "0" >>
Description == << "Automatically generated security rules" >>
Now == << "now-isoformat" >>

HashFailed == << "hash_calculation_failed" >>

\* hashlib.md5 stands as a digest of the bytes read: a position-weighted sum
\* of the bytes, rendered as lowercase hex digits.
RECURSIVE Md5Sum(_, _, _)
Md5Sum(bytes, lo, hi) ==
    IF lo > hi THEN 0
    ELSE IF lo = hi THEN Ord(bytes[lo]) * lo
    ELSE Md5Sum(bytes, lo, (lo + hi) \div 2) + Md5Sum(bytes, ((lo + hi) \div 2) + 1, hi)

Md5Acc(bytes) == (7 + Md5Sum(bytes, 1, Len(bytes))) % 256

Md5Hex(bytes) == << HexDigits[(Md5Acc(bytes) \div 16) + 1], HexDigits[(Md5Acc(bytes) % 16) + 1] >>

calculate_file_hash(file) == IF file.readable THEN Md5Hex(file.content) ELSE HashFailed

GeneratorPatterns ==
    InspectorPatterns \o
    << [pattern |-> << "t","r","o","j","a","n" >>,         type |-> "Trojan reference"],
       [pattern |-> << "b","a","c","k","d","o","o","r" >>, type |-> "Backdoor reference"],
       [pattern |-> << "a","d","w","a","r","e" >>,         type |-> "Adware reference"],
       [pattern |-> << "s","p","y","w","a","r","e" >>,     type |-> "Spyware reference"] >>

ExtractCap == 5
EmbedCap == 3

extract_indicators_from_content(content) == Take(ScanPatterns(GeneratorPatterns, content), ExtractCap)

\* filename.replace('.', '_').replace(' ', '_')
RuleNameOf(filename) == ReplaceChar(ReplaceChar(filename, ".", << "_" >>), " ", << "_" >>)

IndicatorLine(i, indicator) ==
    << "        ", "$", "indicator_", ToString(i), " = ", Q >>
      \o Strip(SplitLast(indicator)) \o << Q, " nocase" >>

FileNameLine(filename) == << "        ", "$", "file_name", " = ", Q >> \o filename \o << Q, " wide ascii" >>

HashLine(file_hash) == << "        ", "$", "hash", " = ", Q >> \o file_hash \o << Q >>

StringsLines(filename, file_hash, indicators) ==
    << FileNameLine(filename), HashLine(file_hash) >>
      \o [i \in DOMAIN Take(indicators, EmbedCap) |-> IndicatorLine(i, indicators[i])]

create_strings_section(filename, file_hash, indicators) ==
    JoinLines(StringsLines(filename, file_hash, indicators))

Tail3 == << "        ", NL, "    condition:", NL, "        any of them", NL, "}", NL >>

generate_yara_rule(filename, analysis, file_hash, indicators) ==
    << "rule " >> \o << "R","u","l","e","_" >> \o RuleNameOf(filename)
      \o << NL, "{", NL, "    meta:", NL >>
      \o << "        author = ", Q >> \o Author \o << Q, NL >>
      \o << "        date = ", Q >> \o Created \o << Q, NL >>
      \o << "        description = ", Q, "Generated from " >> \o filename \o << Q, NL >>
      \o << "        file_type = ", Q, Get(analysis, "file_type", "unknown"), Q, NL >>
      \o << "        file_size = ", ToString(Get(analysis, "file_size", 0)), NL >>
      \o << "        md5 = ", Q >> \o file_hash \o << Q, NL >>
      \o << NL, "    strings:", NL >>
      \o create_strings_section(filename, file_hash, indicators) \o << NL >>
      \o Tail3

generate_csv_yara_rule(filename, file_hash) ==
    << "rule " >> \o << "C","S","V","_","R","u","l","e","_" >> \o RuleNameOf(filename)
      \o << NL, "{", NL, "    meta:", NL >>
      \o << "        author = ", Q >> \o Author \o << Q, NL >>
      \o << "        date = ", Q >> \o Created \o << Q, NL >>
      \o << "        description = ", Q, "Basic rule for CSV file: " >> \o filename \o << Q, NL >>
      \o << "        file_type = ", Q, "text/csv", Q, NL >>
      \o << NL, "    strings:", NL >>
      \o FileNameLine(filename) \o << NL >>
      \o HashLine(file_hash) \o << NL >>
      \o Tail3

generate_basic_yara_rule(filename, file_hash) ==
    << "rule " >> \o << "B","a","s","i","c","_","R","u","l","e","_" >> \o RuleNameOf(filename)
      \o << NL, "{", NL, "    meta:", NL >>
      \o << "        author = ", Q >> \o Author \o << Q, NL >>
      \o << "        date = ", Q >> \o Created \o << Q, NL >>
      \o << "        description = ", Q, "Basic rule for " >> \o filename \o << Q, NL >>
      \o << NL, "    strings:", NL >>
      \o FileNameLine(filename) \o << NL >>
      \o HashLine(file_hash) \o << NL >>
      \o Tail3

generate_sigma_rule(filename, analysis, file_hash) ==
    << "title: Suspicious File - " >> \o filename \o << NL >>
      \o << "id: " >> \o Md5Hex(filename) \o << NL >>
      \o << "status: experimental", NL >>
      \o << "description: Detects presence of " >> \o filename \o << NL >>
      \o << "author: " >> \o Author \o << NL >>
      \o << "date: " >> \o Created \o << NL >>
      \o << "logsource:", NL, "    category: file_event", NL >>
      \o << "detection:", NL, "    selection:", NL >>
      \o << "        FileName|endswith: ", SQ >> \o filename \o << SQ, NL >>
      \o << "    condition: selection", NL >>
      \o << "falsepositives:", NL, "    - Unknown", NL, "level: medium", NL >>

\* A metadata record that takes the hash from the analysis record.
generate_metadata_from_analysis(filename, analysis, file_hash, indicators) ==
    [author           |-> Author,
     created          |-> Created,
     version          |-> Version,
     description      |-> Description,
     source_file      |-> filename,
     file_size        |-> Get(analysis, "file_size", 0),
     file_type        |-> Get(analysis, "file_type", "unknown"),
     analysis_date    |-> Now,
     file_hash        |-> Get(analysis, "file_hash", << "unknown" >>),
     indicators_found |-> indicators,
     status           |-> "generated"]

generate_metadata(filename, analysis, file_hash, indicators) ==
    [author           |-> Author,
     created          |-> Created,
     version          |-> Version,
     description      |-> Description,
     source_file      |-> filename,
     file_size        |-> Get(analysis, "file_size", 0),
     file_type        |-> Get(analysis, "file_type", "unknown"),
     analysis_date    |-> Now,
     file_hash        |-> file_hash,
     indicators_found |-> indicators,
     status           |-> "generated"]

\* A fallback that gives the pattern rule and the metadata only.
generate_basic_rules_without_sigma(filename, analysis, file_hash) ==
    [yara     |-> generate_basic_yara_rule(filename, file_hash),
     sigma    |-> << >>,
     metadata |-> generate_metadata(filename, analysis, file_hash, << >>)]

generate_basic_rules(filename, analysis, file_hash) ==
    [yara     |-> generate_basic_yara_rule(filename, file_hash),
     sigma    |-> generate_sigma_rule(filename, analysis, file_hash),
     metadata |-> generate_metadata(filename, analysis, file_hash, << >>)]

\* open(file_path, 'r', encoding='utf-8', errors='ignore') raises on an
\* unreadable file: the except branch returns the basic rules.
generate_rules_from_text(filename, analysis, file, file_hash) ==
    IF ~file.readable THEN generate_basic_rules(filename, analysis, file_hash)
    ELSE LET content    == DecodeIgnore(file.content)
             indicators == extract_indicators_from_content(content)
         IN  [yara     |-> generate_yara_rule(filename, analysis, file_hash, indicators),
              sigma    |-> generate_sigma_rule(filename, analysis, file_hash),
              metadata |-> generate_metadata(filename, analysis, file_hash, indicators)]

\* A CSV branch that scans the content like the text branch.
generate_rules_from_csv_scanning(filename, analysis, file, file_hash) ==
    generate_rules_from_text(filename, analysis, file, file_hash)

generate_rules_from_csv(filename, analysis, file, file_hash) ==
    [yara     |-> generate_csv_yara_rule(filename, file_hash),
     sigma    |-> generate_sigma_rule(filename, analysis, file_hash),
     metadata |-> generate_metadata(filename, analysis, file_hash, << >>)]

CsvSuffix == << ".", "c", "s", "v" >>

\* generate_rules after its first line: the branch on the filename.
RulesWithHash(filename, analysis, file, file_hash) ==
    IF EndsWith(filename, CsvSuffix)
    THEN generate_rules_from_csv(filename, analysis, file, file_hash)
    ELSE generate_rules_from_text(filename, analysis, file, file_hash)

generate_rules(filename, analysis, file) ==
    RulesWithHash(filename, analysis, file, calculate_file_hash(file))

\* ---------------------------------------------------------------- converter/main.py

SnippetLen == 20

\* re.sub(r'\W+', '_', filename): each maximal run of non-word characters
\* becomes one underscore.
ReSubNonWord(s) ==
    Flatten([i \in DOMAIN s |->
                IF s[i] \in PyWord THEN << s[i] >>
                ELSE IF i > 1 /\ s[i - 1] \notin PyWord THEN << >>
                ELSE << "_" >>])

\* A snippet without the escaping of its double quotes.
Snippet_unescaped(content) == Take(content, SnippetLen)

\* content[:20].replace('"', '\\"')
Snippet(content) == ReplaceChar(Take(content, SnippetLen), Q, << BS, Q >>)

\* The template starts and ends with a line break, which .strip() removes.
convert_to_yara(filename, content) ==
    Strip(<< NL, "rule " >> \o ReSubNonWord(filename)
            \o << NL, "{", NL, "    strings:", NL >>
            \o << "        ", "$", "a", " = ", Q >> \o Snippet(content) \o << Q, NL >>
            \o << "    condition:", NL, "        ", "$", "a", NL, "}", NL >>)

convert_to_sigma(filename, content) ==
    Strip(<< NL, "title: Detect " >> \o ReSubNonWord(filename) \o << NL >>
            \o << "id: " >> \o ReSubNonWord(filename) \o << "-rule", NL >>
            \o << "status: experimental", NL >>
            \o << "description: Auto-generated Sigma rule", NL >>
            \o << "logsource:", NL, "  category: file_event", NL >>
            \o << "detection:", NL, "  keywords:", NL >>
            \o << "    - ", Q >> \o Take(content, SnippetLen) \o << Q, NL >>
            \o << "  condition: keywords", NL, "level: medium", NL >>)


\* ---------------------------------------------------------------- inputs

MaxFiles == 2
MaxStemLen == 2
MaxContentLen == 2

SeqsUpTo(S, n) == UNION { [1..k -> S] : k \in 0..n }

TxtSuffix == << ".", "t", "x", "t" >>

\* The directories the orchestrator and the converter run over.
DirNames == { s \o e : s \in { << "a" >>, << "b" >> }, e \in { TxtSuffix, CsvSuffix } }

DirContents == { << "a" >>, << BadByte >> }

\* The regular files with these names and contents: a file this process may
\* open for reading, one it may not, and one that is gone by the time it is
\* looked at (stat and open both raise, and there are no bytes left to read).
RegularFiles(names, contents) ==
    [name : names, content : contents, readable : BOOLEAN, stat_ok : {TRUE}, is_file : {TRUE}]
      \cup [name : names, content : {<< >>}, readable : {FALSE}, stat_ok : {FALSE},
            is_file : {TRUE}]

\* A directory entry: a regular file with its name, its bytes and whether this
\* process may open it for reading, or something that is not a regular file.
DirEntries ==
    RegularFiles(DirNames, DirContents)
      \cup [name : {<< "d" >>}, content : {<< >>}, readable : {TRUE}, stat_ok : {TRUE},
            is_file : {FALSE}]

\* glob('*') lists each name once, in an order the OS chooses.
Listings == { d \in SeqsUpTo(DirEntries, MaxFiles) :
                \A i, j \in DOMAIN d : i # j => d[i].name # d[j].name }

\* The single files the functions are applied to.
NameChars == { "a", " ", "-", Q, BS, EAcute }

FnNames == { s \o e : s \in SeqsUpTo(NameChars, MaxStemLen) \ {<< >>},
                      e \in { << >>, TxtSuffix, CsvSuffix, << ".", "C", "S", "V" >> } }

ContentChars == { "a", Q, BS, BadByte }

SpecScenario ==
    << "v","i","s","i","t"," ","h","t","t","p",":","/","/","b","a","d",".","c","o","m",
       "/","x",".","e","x","e"," ","n","o","w" >>

\* A text that holds each of the inspector's six patterns.
AllInspectorPatterns == Flatten([i \in DOMAIN InspectorPatterns |-> InspectorPatterns[i].pattern])

UpperCaseSample == << "M","A","L","W","A","R","E",".","E","X","E" >>

\* Longer than the snippet, with a double quote in its first 20 characters
\* and a backslash as the 20th.
LongSample == << "x", Q >> \o [i \in 1..(SnippetLen - 3) |-> "x"] \o << BS, Q, "y" >>

\* Bytes that are not UTF-8 stand inside ".exe", ".dll" and "malware"; "trojan"
\* is whole.
SplitSample ==
    << ".","e",BadByte,"x","e", ".","d",BadByte,"l","l", "m","a","l",BadByte,"w","a","r","e",
       "t","r","o","j","a","n" >>

SampleContents == { SpecScenario, AllInspectorPatterns, UpperCaseSample, LongSample, SplitSample }

FnContents == SampleContents \cup SeqsUpTo(ContentChars, MaxContentLen)

FnFiles == RegularFiles(FnNames, FnContents)

\* ---------------------------------------------------------------- state

VARIABLES
    input_exists,   \* whether the input directory exists
    dir,            \* the input directory's listing
    pc,             \* where the running program is
    idx,            \* the position of the loop over the listing
    analysis,       \* the current file's analysis record
    file_hash,      \* the current file's hash
    rules,          \* the current file's rule bundle
    out,            \* the output directory: file name -> what was written
    log,            \* the logger's lines: << message, position in the listing >>
    files,          \* converter: the (stem, content) pairs loaded
    conv,           \* what convert_to_yara and convert_to_sigma returned
    exit_code       \* run.py: << status >> once sys.exit was called, << >> before

vars == << input_exists, dir, pc, idx, analysis, file_hash, rules, out, log, files, conv,
           exit_code >>

NoOutput == [n \in {} |-> << >>]

\* open(path, 'w') and write: the file is created or overwritten.
WriteFile(o, path, text) == [n \in DOMAIN o \cup {path} |-> IF n = path THEN text ELSE o[n]]

YaraPath(stem) == stem \o << "_rules.yar" >>
SigmaPath(stem) == stem \o << "_sigma.yml" >>
MetaPath(stem) == stem \o << "_metadata.json" >>

Blank ==
    /\ pc = "start"
    /\ idx = 1
    /\ analysis = EmptyRecord
    /\ file_hash = << >>
    /\ rules = EmptyRecord
    /\ out = NoOutput
    /\ log = << >>
    /\ files = << >>
    /\ conv = EmptyRecord
    /\ exit_code = << >>

\* ---------------------------------------------------------------- ASRGenerator

Init ==
    /\ input_exists \in BOOLEAN
    /\ dir \in (IF input_exists THEN Listings ELSE {<< >>})
    /\ Blank

\* process_files without the check of the input directory.
ProcessFiles_unchecked ==
    /\ pc = "start"
    /\ pc' = "loop"
    /\ log' = Append(log, << "Processing files from", 0 >>)
    /\ UNCHANGED << exit_code, input_exists, dir, idx, analysis, file_hash, rules, out, files, conv >>

\* process_files, lines 37-40: raise FileNotFoundError when the input
\* directory is missing, before the loop.
ProcessFiles ==
    /\ pc = "start"
    /\ pc' = IF input_exists THEN "loop" ELSE "raised"
    /\ log' = IF input_exists THEN Append(log, << "Processing files from", 0 >>) ELSE log
    /\ UNCHANGED << exit_code, input_exists, dir, idx, analysis, file_hash, rules, out, files, conv >>

\* for file_path in glob('*'): if file_path.is_file(): ...
NextEntry ==
    /\ pc = "loop"
    /\ IF idx > Len(dir) THEN pc' = "done" /\ idx' = idx
       ELSE IF dir[idx].is_file THEN pc' = "inspect" /\ idx' = idx
       ELSE pc' = "loop" /\ idx' = idx + 1
    /\ UNCHANGED << exit_code, input_exists, dir, analysis, file_hash, rules, out, log, files, conv >>

\* _process_single_file: analysis_result = self.file_processor.analyze_file(file_path)
Inspect ==
    /\ pc = "inspect"
    /\ log' = Append(log, << "Processing file", idx >>)
    /\ analysis' = analyze_file(dir[idx])
    /\ pc' = "hash"
    /\ UNCHANGED << exit_code, input_exists, dir, idx, file_hash, rules, out, files, conv >>

\* generate_rules: file_hash = self._calculate_file_hash(file_path)
Hash ==
    /\ pc = "hash"
    /\ file_hash' = calculate_file_hash(dir[idx])
    /\ pc' = "render"
    /\ UNCHANGED << exit_code, input_exists, dir, idx, analysis, rules, out, log, files, conv >>

\* generate_rules: the branch and its templates
Render ==
    /\ pc = "render"
    /\ rules' = RulesWithHash(dir[idx].name, analysis, dir[idx], file_hash)
    /\ pc' = "write_yara"
    /\ UNCHANGED << exit_code, input_exists, dir, idx, analysis, file_hash, out, log, files, conv >>

\* _save_rules: if rules.get('yara'): write <base_name>_rules.yar
WriteYara ==
    /\ pc = "write_yara"
    /\ out' = IF rules.yara # << >>
              THEN WriteFile(out, YaraPath(PathStem(dir[idx].name)), rules.yara)
              ELSE out
    /\ log' = IF rules.yara # << >> THEN Append(log, << "YARA rules saved", idx >>) ELSE log
    /\ pc' = "write_sigma"
    /\ UNCHANGED << exit_code, input_exists, dir, idx, analysis, file_hash, rules, files, conv >>

\* A write of the Sigma rule that hands over to the next file at once.
WriteSigma_hands_over ==
    /\ pc = "write_sigma"
    /\ out' = WriteFile(out, SigmaPath(PathStem(dir[idx].name)), rules.sigma)
    /\ log' = Append(log, << "Sigma rules saved", idx >>)
    /\ pc' = "loop"
    /\ idx' = idx + 1
    /\ UNCHANGED << exit_code, input_exists, dir, analysis, file_hash, rules, files, conv >>

\* _save_rules: if rules.get('sigma'): write <base_name>_sigma.yml
WriteSigma ==
    /\ pc = "write_sigma"
    /\ out' = IF rules.sigma # << >>
              THEN WriteFile(out, SigmaPath(PathStem(dir[idx].name)), rules.sigma)
              ELSE out
    /\ log' = IF rules.sigma # << >> THEN Append(log, << "Sigma rules saved", idx >>) ELSE log
    /\ pc' = "write_meta"
    /\ UNCHANGED << exit_code, input_exists, dir, idx, analysis, file_hash, rules, files, conv >>

\* _save_rules: json.dump(rules.get('metadata', {})); then the loop goes on
WriteMeta ==
    /\ pc = "write_meta"
    /\ out' = WriteFile(out, MetaPath(PathStem(dir[idx].name)), rules.metadata)
    /\ log' = Append(log, << "Metadata saved", idx >>)
    /\ pc' = "loop"
    /\ idx' = idx + 1
    /\ UNCHANGED << exit_code, input_exists, dir, analysis, file_hash, rules, files, conv >>

\* A handler that lets the exception end the run.
HandleError_reraise ==
    /\ log' = Append(log, << "Error processing", idx >>)
    /\ pc' = "raised"
    /\ idx' = idx

\* What process_files does with an exception of _process_single_file:
\* except Exception: logger.error(...), and the loop goes on.
HandleError ==
    /\ log' = Append(log, << "Error processing", idx >>)
    /\ pc' = "loop"
    /\ idx' = idx + 1

\* A write of _save_rules raises (the environment refuses the open or the
\* write): the exception leaves _process_single_file.
WriteRaises ==
    /\ pc \in {"write_yara", "write_sigma", "write_meta"}
    /\ HandleError
    /\ UNCHANGED << exit_code, input_exists, dir, analysis, file_hash, rules, out, files, conv >>

\* main(): process_files returned; logger.info("Rule generation completed successfully!")
MainReturns ==
    /\ pc = "done"
    /\ log' = Append(log, << "Rule generation completed successfully!", 0 >>)
    /\ pc' = "main_returned"
    /\ UNCHANGED << exit_code, input_exists, dir, idx, analysis, file_hash, rules, out, files, conv >>

\* main(): except Exception as e: logger.error(...); raise
MainReraises ==
    /\ pc = "raised"
    /\ log' = Append(log, << "Error in main execution", 0 >>)
    /\ pc' = "main_raised"
    /\ UNCHANGED << exit_code, input_exists, dir, idx, analysis, file_hash, rules, out, files, conv >>

\* run.py: main() then sys.exit(0); except Exception: print, sys.exit(1).
\* SystemExit is not an Exception, so the handler does not catch sys.exit(0).
RunExit ==
    /\ pc \in {"main_returned", "main_raised"}
    /\ exit_code' = IF pc = "main_returned" THEN << 0 >> ELSE << 1 >>
    /\ pc' = "exited"
    /\ UNCHANGED << input_exists, dir, idx, analysis, file_hash, rules, out, log, files, conv >>

Next ==
    \/ ProcessFiles
    \/ NextEntry
    \/ Inspect
    \/ Hash
    \/ Render
    \/ WriteYara
    \/ WriteSigma
    \/ WriteMeta
    \/ WriteRaises
    \/ MainReturns
    \/ MainReraises
    \/ RunExit

Spec == Init /\ [][Next]_vars

\* ---------------------------------------------------------------- converter

InitConv ==
    /\ input_exists = TRUE
    /\ dir \in Listings
    /\ Blank

\* load_input_files: open(file, "r", encoding="utf-8") and f.read() raise on
\* a file that cannot be opened or decoded; nothing catches it.
LoadFile ==
    /\ pc = "start"
    /\ idx <= Len(dir)
    /\ IF ~dir[idx].is_file
       THEN pc' = pc /\ idx' = idx + 1 /\ files' = files
       ELSE IF dir[idx].readable /\ DecodesStrict(dir[idx].content)
       THEN /\ files' = Append(files, << PathStem(dir[idx].name), dir[idx].content >>)
            /\ idx' = idx + 1
            /\ pc' = pc
       ELSE pc' = "raised" /\ idx' = idx /\ files' = files
    /\ UNCHANGED << exit_code, input_exists, dir, analysis, file_hash, rules, out, log, conv >>

\* load_input_files returns; main starts its loop.
LoadDone ==
    /\ pc = "start"
    /\ idx > Len(dir)
    /\ pc' = "convert"
    /\ idx' = 1
    /\ UNCHANGED << exit_code, input_exists, dir, analysis, file_hash, rules, out, log, files, conv >>

YaraOut(fname) == fname \o << ".", "yara" >>
YamlOut(fname) == fname \o << ".", "yaml" >>

\* main: one iteration of the loop, both rules converted and saved.
ConvertFile ==
    /\ pc = "convert"
    /\ idx <= Len(files)
    /\ conv' = [yara  |-> convert_to_yara(files[idx][1], files[idx][2]),
                sigma |-> convert_to_sigma(files[idx][1], files[idx][2])]
    /\ out' = WriteFile(WriteFile(out, YaraOut(files[idx][1]), conv'.yara),
                        YamlOut(files[idx][1]), conv'.sigma)
    /\ idx' = idx + 1
    /\ UNCHANGED << exit_code, input_exists, dir, pc, analysis, file_hash, rules, log, files >>

\* main: the loop is over, the summary is printed.
ConvertDone ==
    /\ pc = "convert"
    /\ idx > Len(files)
    /\ pc' = "done"
    /\ UNCHANGED << exit_code, input_exists, dir, idx, analysis, file_hash, rules, out, log, files, conv >>

NextConv ==
    \/ LoadFile
    \/ LoadDone
    \/ ConvertFile
    \/ ConvertDone

SpecConv == InitConv /\ [][NextConv]_vars

\* ---------------------------------------------------------------- the functions, one file at a time

InitFn ==
    /\ input_exists = TRUE
    /\ dir \in { << f >> : f \in FnFiles }
    /\ Blank

FnAnalyze ==
    /\ pc = "start"
    /\ analysis' = analyze_file(dir[1])
    /\ pc' = "analyzed"
    /\ UNCHANGED << exit_code, input_exists, dir, idx, file_hash, rules, out, log, files, conv >>

FnGenerate ==
    /\ pc = "analyzed"
    /\ file_hash' = calculate_file_hash(dir[1])
    /\ rules' = generate_rules(dir[1].name, analysis, dir[1])
    /\ pc' = "generated"
    /\ UNCHANGED << exit_code, input_exists, dir, idx, analysis, out, log, files, conv >>

\* The converter's functions take str content: the file decoded.
FnConvert ==
    /\ pc = "generated"
    /\ DecodesStrict(dir[1].content)
    /\ conv' = [yara  |-> convert_to_yara(dir[1].name, dir[1].content),
                sigma |-> convert_to_sigma(dir[1].name, dir[1].content)]
    /\ pc' = "converted"
    /\ UNCHANGED << exit_code, input_exists, dir, idx, analysis, file_hash, rules, out, log, files >>

NextFn ==
    \/ FnAnalyze
    \/ FnGenerate
    \/ FnConvert

SpecFn == InitFn /\ [][NextFn]_vars


\* ---------------------------------------------------------------- reading rendered text

Min(S) == CHOOSE x \in S : \A y \in S : x <= y

\* The line of text that starts at position s.
LineAt(text, s) ==
    LET ends == { j \in s..Len(text) : text[j] = NL }
    IN  SubSeq(text, s, (IF ends = {} THEN Len(text) + 1 ELSE Min(ends)) - 1)

LineStarts(text) == {1} \cup { i + 1 : i \in { j \in DOMAIN text : text[j] = NL } }

\* The starts of the lines that begin with prefix.
LinesWith(text, prefix) == { s \in LineStarts(text) : Take(LineAt(text, s), Len(prefix)) = prefix }

\* What stands between prefix and suffix on the first line that begins with prefix.
Field(text, prefix, suffix) ==
    LET l == LineAt(text, Min(LinesWith(text, prefix)))
    IN  SubSeq(l, Len(prefix) + 1, Len(l) - Len(suffix))

\* The identifier after the keyword "rule".
RuleIdent(text) == Field(text, << "rule " >>, << >>)

StringEntry == << "        ", "$" >>

HashEntry == << "        ", "$", "hash", " = ", Q >>

Md5Meta == << "        md5 = ", Q >>

IndicatorEntry(i) == << "        ", "$", "indicator_", ToString(i), " = ", Q >>

Logged(msg, i) == \E k \in DOMAIN log : log[k] = << msg, i >>

Triple(name) == { YaraPath(PathStem(name)), SigmaPath(PathStem(name)), MetaPath(PathStem(name)) }

Generated == pc \in {"generated", "converted"}

\* ---------------------------------------------------------------- claims

\* C1: in process_files a failure raised while one file is processed never
\* ends the run: no exception leaves process_files when the input directory
\* exists, every regular file is taken up, and each file whose processing did
\* not raise has its output triple in the output directory.
C1_FailureIsolated ==
    /\ input_exists => pc # "raised"
    /\ pc = "done" =>
         \A i \in DOMAIN dir :
            dir[i].is_file =>
              /\ Logged("Processing file", i)
              /\ ~Logged("Error processing", i) => Triple(dir[i].name) \subseteq DOMAIN out

C1_Witness ==
    /\ pc = "done"
    /\ \E i, j \in DOMAIN dir :
          /\ i < j
          /\ Logged("Error processing", i)
          /\ dir[j].is_file
          /\ ~Logged("Error processing", j)
          /\ PathStem(dir[i].name) # PathStem(dir[j].name)
          /\ Triple(dir[j].name) \subseteq DOMAIN out

\* C2: in the converter a single input file that cannot be opened or decoded
\* as UTF-8 does not abort the run: once the run has ended, every other
\* regular file has its <stem>.yara and <stem>.yaml written.
C2_ConverterIsolatesBadFile ==
    pc \in {"done", "raised"} =>
       \A i \in DOMAIN dir :
          (dir[i].is_file /\ dir[i].readable /\ DecodesStrict(dir[i].content)) =>
             { YaraOut(PathStem(dir[i].name)), YamlOut(PathStem(dir[i].name)) } \subseteq DOMAIN out

\* C3: in every branch of generate_rules the hash embedded in the pattern
\* rule and the file_hash of the metadata record are the value that
\* _calculate_file_hash returned; when the file cannot be read that value is
\* the sentinel and the bundle still has its three parts.
C3_HashConsistent ==
    Generated =>
       /\ Field(rules.yara, HashEntry, << Q >>) = file_hash
       /\ LinesWith(rules.yara, Md5Meta) # {} => Field(rules.yara, Md5Meta, << Q >>) = file_hash
       /\ rules.metadata.file_hash = file_hash
       /\ ~dir[1].readable => file_hash = HashFailed
       /\ DOMAIN rules = {"yara", "sigma", "metadata"}
       /\ rules.yara # << >> /\ rules.sigma # << >>

C3_Witness ==
    /\ Generated
    /\ ~dir[1].readable
    /\ ~EndsWith(dir[1].name, CsvSuffix)
    /\ Field(rules.yara, HashEntry, << Q >>) = HashFailed
    /\ rules.metadata.file_hash = HashFailed

\* The text after the category colon (the first colon) of an indicator string.
AfterCategory(indicator) ==
    SubSeq(indicator, Min({ i \in DOMAIN indicator : indicator[i] = ":" }) + 1, Len(indicator))

\* C4: for every indicator "<Category>: <pattern>" that extraction produced,
\* the literal of the pattern rule's $indicator_N entry is <pattern>, the text
\* after the category colon, trimmed.
C4_IndicatorLiteralIsPattern ==
    (Generated /\ dir[1].readable /\ ~EndsWith(dir[1].name, CsvSuffix)) =>
       \A i \in DOMAIN Take(rules.metadata.indicators_found, EmbedCap) :
          Field(rules.yara, IndicatorEntry(i), << Q, " nocase" >>)
             = Strip(AfterCategory(rules.metadata.indicators_found[i]))

\* C5: every indicator list that extraction produces has at most 5 entries,
\* the generator's full-content extraction and the inspector's prefix scan
\* alike, and the pattern rule embeds at most 3 indicator entries.
C5_IndicatorCaps ==
    /\ "potential_indicators" \in DOMAIN analysis => Len(analysis.potential_indicators) <= ExtractCap
    /\ Generated =>
         /\ Len(rules.metadata.indicators_found) <= ExtractCap
         /\ Cardinality(LinesWith(rules.yara, << "        ", "$", "indicator_" >>)) <= EmbedCap

\* C6: the rule identifier after the keyword "rule" holds no character
\* outside [A-Za-z0-9_], in the generator's three templates and in
\* convert_to_yara.
C6_IdentifierIsWord ==
    /\ Generated => Range(RuleIdent(rules.yara)) \subseteq AsciiWord
    /\ pc = "converted" => Range(RuleIdent(conv.yara)) \subseteq AsciiWord

\* C7: for a filename that ends in ".csv" the strings block of the pattern
\* rule holds the filename pattern and the hash pattern and nothing else, the
\* declared type is "text/csv", and the metadata record has no indicators,
\* whatever the content holds.
C7_CsvBranchIsolated ==
    (Generated /\ EndsWith(dir[1].name, CsvSuffix)) =>
       /\ Cardinality(LinesWith(rules.yara, StringEntry)) = 2
       /\ LinesWith(rules.yara, << "        ", "$", "file_name", " = ", Q >> \o dir[1].name \o << Q, " wide ascii" >>) # {}
       /\ LinesWith(rules.yara, HashEntry \o file_hash \o << Q >>) # {}
       /\ \A i \in DOMAIN rules.yara : rules.yara[i] # "indicator_"
       /\ LinesWith(rules.yara, << "        file_type = ", Q, "text/csv", Q >>) # {}
       /\ rules.metadata.indicators_found = << >>

C7_Witness ==
    /\ Generated
    /\ EndsWith(dir[1].name, CsvSuffix)
    /\ dir[1].readable
    /\ extract_indicators_from_content(DecodeIgnore(dir[1].content)) # << >>
    /\ Cardinality(LinesWith(rules.yara, StringEntry)) = 2

\* C8: after process_files has run over readable regular files without a
\* failure, there are as many *_rules.yar files as input files, and the
\* metadata file named after each file's stem records that file's name and
\* that file's hash.
C8_EveryFileKeepsItsOutputs ==
    (/\ pc = "done"
     /\ \A i \in DOMAIN dir : dir[i].is_file /\ dir[i].readable /\ ~Logged("Error processing", i)) =>
       /\ Cardinality({ n \in DOMAIN out : n[Len(n)] = "_rules.yar" }) = Len(dir)
       /\ \A i \in DOMAIN dir :
             /\ MetaPath(PathStem(dir[i].name)) \in DOMAIN out
             /\ out[MetaPath(PathStem(dir[i].name))].source_file = dir[i].name
             /\ out[MetaPath(PathStem(dir[i].name))].file_hash = Md5Hex(dir[i].content)

\* A line of rule text read as the rule language reads it: the number of
\* string literals it holds, or -1 when a literal is left open at its end.
\* Inside a literal a backslash takes the next character with it.
RECURSIVE Literals(_, _, _, _)
Literals(line, i, inside, n) ==
    IF i > Len(line) THEN (IF inside THEN -1 ELSE n)
    ELSE IF ~inside THEN Literals(line, i + 1, line[i] = Q, n)
    ELSE IF line[i] = BS THEN (IF i = Len(line) THEN -1 ELSE Literals(line, i + 2, TRUE, n))
    ELSE IF line[i] = Q THEN Literals(line, i + 1, FALSE, n + 1)
    ELSE Literals(line, i + 1, TRUE, n)

\* Every line holds the one literal its template gives it, closed by the
\* template's closing quote, and the rule has one pair of braces.
WellFormed(text) ==
    /\ \A s \in LineStarts(text) :
          LET line == LineAt(text, s)
          IN  Literals(line, 1, FALSE, 0) = (IF \E i \in DOMAIN line : line[i] = Q THEN 1 ELSE 0)
    /\ Cardinality({ i \in DOMAIN text : text[i] = "{" }) = 1
    /\ Cardinality({ i \in DOMAIN text : text[i] = "}" }) = 1

\* C9: every double-quoted literal of the rendered pattern rule is properly
\* terminated, whatever the filename, the indicators and the content snippet
\* hold, and the braces are balanced: in the generator's templates and in
\* convert_to_yara.
C9_LiteralsTerminated ==
    /\ Generated => WellFormed(rules.yara)
    /\ pc = "converted" => WellFormed(conv.yara)

Head20(content) == Take(content, SnippetLen)

WordName == Range(dir[1].name) \subseteq PyWord

\* C10 as stated: for a filename of word characters, convert_to_yara's text
\* holds "rule <filename>" and the first 20 characters of the content
\* verbatim, and convert_to_sigma's text holds "title: Detect <filename>" and
\* the first 20 characters verbatim.
C10_SnippetVerbatim ==
    (pc = "converted" /\ WordName) =>
       /\ Contains(<< "rule " >> \o dir[1].name, conv.yara)
       /\ Contains(Head20(dir[1].content), conv.yara)
       /\ Contains(<< "title: Detect " >> \o dir[1].name, conv.sigma)
       /\ Contains(Head20(dir[1].content), conv.sigma)

\* C10 amended: convert_to_yara's text holds the first 20 characters with a
\* backslash put before each double quote, which is the 20 characters
\* verbatim when they hold no double quote; the rest is as stated.
C10_SnippetEscaped ==
    (pc = "converted" /\ WordName) =>
       /\ Contains(<< "rule " >> \o dir[1].name \o << NL >>, conv.yara)
       /\ Contains(<< Q >> \o ReplaceChar(Head20(dir[1].content), Q, << BS, Q >>) \o << Q, NL >>, conv.yara)
       /\ (\A i \in DOMAIN Head20(dir[1].content) : Head20(dir[1].content)[i] # Q)
             => Contains(Head20(dir[1].content), conv.yara)
       /\ Contains(<< "title: Detect " >> \o dir[1].name \o << NL >>, conv.sigma)
       /\ Contains(<< Q >> \o Head20(dir[1].content) \o << Q, NL >>, conv.sigma)

C10_Witness ==
    /\ pc = "converted"
    /\ WordName
    /\ Len(dir[1].content) > SnippetLen
    /\ \E i \in DOMAIN Head20(dir[1].content) : Head20(dir[1].content)[i] = Q
    /\ ~Contains(Head20(dir[1].content), conv.yara)

\* The literals of the $indicator_N entries of a pattern rule.
IndicatorLiterals(text) ==
    { Field(text, IndicatorEntry(i), << Q, " nocase" >>) :
        i \in { k \in 1..EmbedCap : LinesWith(text, IndicatorEntry(k)) # {} } }

\* C11: for every readable non-.csv file whose content holds at least one of
\* the fixed indicator patterns, the pattern rule matches the file: at least
\* one embedded $indicator literal occurs, compared case-insensitively, as a
\* substring of the file's content.
C11_RuleMatchesFile ==
    (/\ Generated
     /\ dir[1].readable
     /\ ~EndsWith(dir[1].name, CsvSuffix)
     /\ \E k \in DOMAIN GeneratorPatterns :
           Contains(GeneratorPatterns[k].pattern, Lower(dir[1].content)))
       => \E lit \in IndicatorLiterals(rules.yara) :
             Contains(Lower(lit), Lower(dir[1].content))

\* C12: when the input directory does not exist, process_files raises before
\* any file is inspected and before any rule or metadata file is written,
\* main re-raises and run.py ends with a non-zero exit status; when
\* process_files returns normally, run.py ends with exit status 0.
C12_ExitStatus ==
    /\ ~input_exists =>
          /\ pc \in {"start", "raised", "main_raised", "exited"}
          /\ out = NoOutput
          /\ \A k \in DOMAIN log : log[k][1] # "Processing file"
          /\ pc = "exited" => exit_code = << 1 >>
    /\ input_exists =>
          /\ pc \notin {"raised", "main_raised"}
          /\ pc = "exited" => exit_code = << 0 >>
    /\ pc = "exited" => Logged("Error in main execution", 0) = ~input_exists

C12_Witness ==
    /\ ~input_exists
    /\ pc = "exited"
    /\ exit_code = << 1 >>
    /\ Logged("Error in main execution", 0)

C12_WitnessNormal ==
    /\ input_exists
    /\ pc = "exited"
    /\ exit_code = << 0 >>
    /\ out # NoOutput

Analyzed == pc \in {"analyzed", "generated", "converted"}

FileInfoKeys == {"file_size", "modified_time", "file_name", "file_extension"}

ContentKeys == {"has_text_patterns", "has_binary_patterns", "potential_indicators"}

\* C13 as stated: analyze_file never propagates an exception, and whenever a
\* step of the inspection raises (the file attributes, the content prefix or
\* the type detection) the record it returns is empty.
C13_FailureGivesEmptyRecord ==
    (Analyzed /\ (~dir[1].stat_ok \/ ~dir[1].readable)) => analysis = EmptyRecord

\* C13, amended: the record is empty exactly when reading the file attributes
\* raises; when only the content prefix cannot be read the record keeps the
\* attribute fields and file_type, which is "unknown", and lacks the three
\* content fields.
C13_OnlyStatFailureGivesEmptyRecord ==
    Analyzed =>
       /\ ~dir[1].stat_ok => analysis = EmptyRecord
       /\ (dir[1].stat_ok /\ ~dir[1].readable) =>
             /\ DOMAIN analysis = FileInfoKeys \cup {"file_type"}
             /\ analysis.file_type = "unknown"
             /\ analysis.file_name = dir[1].name
       /\ (dir[1].stat_ok /\ dir[1].readable) =>
             DOMAIN analysis = FileInfoKeys \cup ContentKeys \cup {"file_type"}

C13_Witness ==
    /\ pc = "analyzed"
    /\ dir[1].stat_ok
    /\ ~dir[1].readable
    /\ analysis # EmptyRecord
    /\ analysis.file_type = "unknown"

MetadataKeys ==
    {"author", "created", "version", "description", "source_file", "file_size", "file_type",
     "analysis_date", "file_hash", "indicators_found", "status"}

\* The file of the run, had it been readable.
ReadableTwin == [dir[1] EXCEPT !.readable = TRUE, !.stat_ok = TRUE]

\* The generic branch's read raised.
FellBack == Generated /\ ~dir[1].readable /\ ~EndsWith(dir[1].name, CsvSuffix)

Rank(msg) ==
    CASE msg = "Processing file"  -> 1
      [] msg = "YARA rules saved"  -> 2
      [] msg = "Sigma rules saved" -> 3
      [] msg = "Metadata saved"    -> 4
      [] msg = "Error processing"  -> 5
      [] OTHER                     -> 0

\* The logger lines about files come file after file, and within one file in
\* the order of its pipeline.
SequentialLog(l) ==
    \A k, m \in DOMAIN l :
       (k < m /\ l[k][2] > 0 /\ l[m][2] > 0) =>
          \/ l[k][2] < l[m][2]
          \/ l[k][2] = l[m][2] /\ Rank(l[k][1]) < Rank(l[m][1])

\* The failure of the current file was caught and the loop went on.
Caught ==
    /\ log' = Append(log, << "Error processing", idx >>)
    /\ pc' = "loop"
    /\ idx' = idx + 1

SameFile(next) == pc' = next /\ idx' = idx

StepInOrder ==
    /\ pc = "inspect"     => SameFile("hash")
    /\ pc = "hash"        => SameFile("render")
    /\ pc = "render"      => SameFile("write_yara")
    /\ pc = "write_yara"  => SameFile("write_sigma") \/ Caught
    /\ pc = "write_sigma" => SameFile("write_meta") \/ Caught
    /\ pc = "write_meta"  =>
          \/ /\ pc' = "loop"
             /\ idx' = idx + 1
             /\ MetaPath(PathStem(dir[idx].name)) \in DOMAIN out'
          \/ Caught
    /\ pc' = "inspect"    => pc = "loop" /\ idx' = idx /\ dir[idx].is_file
    /\ idx' # idx         => pc \in {"loop", "write_yara", "write_sigma", "write_meta"}
    /\ SequentialLog(log')

\* C15: the files are handled strictly one after another: for each file the
\* steps come in the order inspect, hash, render, write (pattern rule, then
\* log-detection rule, then metadata), and no step of the next file starts
\* before the current file's last write has finished or its failure has been
\* caught.
C15_OneFileAtATime == [][StepInOrder]_vars

C15_Witness ==
    /\ pc = "done"
    /\ \E i, j \in DOMAIN dir :
          /\ i # j
          /\ Logged("Metadata saved", i)
          /\ Logged("Error processing", j)
          /\ Logged("Sigma rules saved", j)

=============================================================================
